---- MODULE Spec2Model ----
(***************************************************************************)
(* Model of the mailerlite-cli dashboard core: the three pagination        *)
(* fetchers of internal/sdkclient and the Bubble Tea application model of  *)
(* internal/tui with its five resource views.                              *)
(***************************************************************************)
EXTENDS Integers, Sequences, FiniteSets, TLC

(***************************************************************************)
(* Bounds of the pagination model.                                         *)
(***************************************************************************)
MaxPages == 2      \* longest scripted page sequence
MaxPageLen == 2    \* most items one page carries
MaxCalls == 3      \* page-function calls explored per fetch
MaxLimit == 2      \* largest small limit tried (besides the page-size ones)
MaxCursor == 1     \* distinct non-empty continuation values
MaxErr == 1        \* distinct error values a page function returns

DefaultPerPage == 25

(***************************************************************************)
(* Bounds of the dashboard model.                                          *)
(***************************************************************************)
MaxFetches == 2    \* fetch commands dispatched in one session
MaxItems == 1      \* longest item list a fetch delivers

VARIABLES
    \* ---- pagination fetcher (one call of FetchAll / FetchAllStringCursor /
    \* FetchAllCursor) ----
    fetcher,     \* which of the three functions runs ("none" in the dashboard)
    limit,       \* the limit argument
    pages,       \* the page function: its answer to the k-th call
    perPage,     \* local perPage
    allItems,    \* local allItems
    position,    \* local page / cursor / after
    requests,    \* arguments of the page-function calls made so far
    pc,          \* "loop" while in the for loop, "done" after return
    retItems,    \* returned slice
    retErr,      \* returned error (0 is nil)
    \* ---- dashboard (tea.Program running tui.App) ----
    app,         \* the App model: fields, components and the five views
    started,     \* App.Init has run
    quit,        \* tea.Quit was returned: the program has ended
    running,     \* fetch commands dispatched and not yet delivered
    nextId,      \* number of fetch commands dispatched so far
    fetchLog     \* history, per fetch command the model lets the program
                 \* dispatch: the fetches of the same view outstanding when
                 \* it was dispatched, and the number of its messages Update
                 \* has handled

pgVars == <<fetcher, limit, pages, perPage, allItems, position, requests,
            pc, retItems, retErr>>

tuiVars == <<app, started, quit, running, nextId, fetchLog>>

vars == <<pgVars, tuiVars>>

----------------------------------------------------------------------------
(* Generic helpers *)

Min(a, b) == IF a < b THEN a ELSE b

IsPrefix(s, t) == Len(s) <= Len(t) /\ SubSeq(t, 1, Len(s)) = s

\* allItems[:limit]
Truncate(acc, lim) == SubSeq(acc, 1, lim)

----------------------------------------------------------------------------
(* The page function.  A page answer is [n, next, err]: n items, the       *)
(* continuation (0 stands for hasNext = false, cursor "" and after 0) and   *)
(* the error (0 is nil).  Every page but the last announces a next page;    *)
(* a last page that still announces one is served again on every further    *)
(* call.                                                                    *)

PageAnswers == [n : 0..MaxPageLen, next : 0..MaxCursor, err : 0..MaxErr]

PageScripts ==
    UNION { { s \in [1..len -> PageAnswers] :
                \A k \in 1..(len - 1) : s[k].next # 0 } : len \in 1..MaxPages }

PageAt(k) == pages[Min(k, Len(pages))]

\* the items the k-th call hands back: item i of call k
ItemsOf(k) == [i \in 1..PageAt(k).n |-> <<k, i>>]

\* the string cursors "" , "c1", "c2", ... of the string-cursor protocol
CursorString(c) == IF c = 0 THEN "" ELSE "c" \o ToString(c)

Limits == (0..MaxLimit) \cup {DefaultPerPage, DefaultPerPage + 1}

----------------------------------------------------------------------------
(* internal/sdkclient pagination *)

\* mutant: the page size not capped at the default
PerPageUncapped(lim) == IF lim > 0 THEN lim ELSE DefaultPerPage

PerPageFor(lim) == IF lim > 0 /\ lim < DefaultPerPage THEN lim ELSE DefaultPerPage

\* mutant: the limit > 0 test forgotten
LimitReachedAlways(acc, lim) == Len(acc) >= lim

\* mutant: the loop goes on when the count equals the limit
LimitReachedStrict(acc, lim) == lim > 0 /\ Len(acc) > lim

LimitReached(acc, lim) == lim > 0 /\ Len(acc) >= lim

\* mutant: the accumulated items returned uncut
LimitCutNone(acc, lim) == acc

\* mutant: the cut one item short
LimitCutShort(acc, lim) == Truncate(acc, lim - 1)

LimitCut(acc, lim) == Truncate(acc, lim)

\* mutant: the pages gathered so far returned beside the error
ErrorReturnPartial(acc) == acc

\* return nil, err
ErrorReturn(acc) == <<>>

\* mutant: no empty-page guard
StringCursorStopsOnCursor(nextCursor, items) == nextCursor = ""

StringCursorStops(nextCursor, items) == nextCursor = "" \/ Len(items) = 0

CursorStops(nextAfter, items) == nextAfter = 0 \/ Len(items) = 0

\* the common body of the three loops, after the page function returned
LoopBody(k, stops, nextPos) ==
    LET resp == PageAt(k)
        acc  == allItems \o ItemsOf(k)
    IN  IF resp.err # 0
        THEN /\ retItems' = ErrorReturn(allItems)
             /\ retErr' = resp.err
             /\ pc' = "done"
             /\ UNCHANGED <<allItems, position>>
        ELSE IF LimitReached(acc, limit)
        THEN /\ allItems' = LimitCut(acc, limit)
             /\ retItems' = allItems'
             /\ retErr' = 0
             /\ pc' = "done"
             /\ UNCHANGED position
        ELSE IF stops
        THEN /\ allItems' = acc
             /\ retItems' = acc
             /\ retErr' = 0
             /\ pc' = "done"
             /\ UNCHANGED position
        ELSE /\ allItems' = acc
             /\ position' = nextPos
             /\ UNCHANGED <<retItems, retErr, pc>>

FetchAll ==
    /\ fetcher = "FetchAll"
    /\ pc = "loop"
    /\ Len(requests) < MaxCalls
    /\ LET k == Len(requests) + 1
       IN  /\ requests' = Append(requests, [arg |-> position, perPage |-> perPage])
           /\ LoopBody(k, PageAt(k).next = 0, position + 1)
    /\ UNCHANGED <<fetcher, limit, pages, perPage>>
    /\ UNCHANGED tuiVars

FetchAllStringCursor ==
    /\ fetcher = "FetchAllStringCursor"
    /\ pc = "loop"
    /\ Len(requests) < MaxCalls
    /\ LET k == Len(requests) + 1
           nextCursor == CursorString(PageAt(k).next)
       IN  /\ requests' = Append(requests, [arg |-> position, perPage |-> perPage])
           /\ LoopBody(k, StringCursorStops(nextCursor, ItemsOf(k)), nextCursor)
    /\ UNCHANGED <<fetcher, limit, pages, perPage>>
    /\ UNCHANGED tuiVars

FetchAllCursor ==
    /\ fetcher = "FetchAllCursor"
    /\ pc = "loop"
    /\ Len(requests) < MaxCalls
    /\ LET k == Len(requests) + 1
           nextAfter == PageAt(k).next
       IN  /\ requests' = Append(requests, [arg |-> position, perPage |-> perPage])
           /\ LoopBody(k, CursorStops(nextAfter, ItemsOf(k)), nextAfter)
    /\ UNCHANGED <<fetcher, limit, pages, perPage>>
    /\ UNCHANGED tuiVars

StartPosition(f) ==
    CASE f = "FetchAll" -> 1
      [] f = "FetchAllStringCursor" -> ""
      [] OTHER -> 0

----------------------------------------------------------------------------
(* internal/tui/types: view types *)

ViewSubscribers == 0
ViewCampaigns == 1
ViewAutomations == 2
ViewGroups == 3
ViewForms == 4

ViewTypes == {ViewSubscribers, ViewCampaigns, ViewAutomations, ViewGroups, ViewForms}

ViewString(v) ==
    CASE v = ViewSubscribers -> "Subscribers"
      [] v = ViewCampaigns -> "Campaigns"
      [] v = ViewAutomations -> "Automations"
      [] v = ViewGroups -> "Groups"
      [] v = ViewForms -> "Forms"
      [] OTHER -> "Unknown"

FormTypePopup == 0
FormTypeEmbedded == 1
FormTypePromotion == 2

APIValue(f) ==
    CASE f = FormTypePopup -> "popup"
      [] f = FormTypeEmbedded -> "embedded"
      [] f = FormTypePromotion -> "promotion"
      [] OTHER -> "popup"

----------------------------------------------------------------------------
(* Items.  An item is opaque to the dashboard; it is identified by the     *)
(* resource it belongs to, its index in the delivered list and, for forms, *)
(* the type filter of the request that returned it.                        *)

NoItem == [of |-> "", idx |-> 0, type |-> ""]

ItemList(cmd, n) ==
    [i \in 1..n |-> [of |-> ViewString(cmd.view), idx |-> i,
                     type |-> IF cmd.view = ViewForms THEN APIValue(cmd.tab) ELSE ""]]

----------------------------------------------------------------------------
(* internal/tui/components (Table, DetailPanel, Sidebar, StatusBar,        *)
(* Spinner, Help) and the key map                                          *)

NewTable == [rows |-> <<>>, cursor |-> 0, loading |-> FALSE, focused |-> FALSE,
             width |-> 0, height |-> 0]

TableSetSize(t, w, h) == [t EXCEPT !.width = w, !.height = h]
TableSetFocused(t, f) == [t EXCEPT !.focused = f]
TableSetLoading(t, l) == [t EXCEPT !.loading = l]
TableSetRows(t, rows) ==
    [t EXCEPT !.rows = rows,
              !.cursor = IF t.cursor >= Len(rows)
                         THEN (IF Len(rows) = 0 THEN 0 ELSE Len(rows) - 1)
                         ELSE t.cursor]
TableMoveDown(t) == IF t.cursor < Len(t.rows) - 1 THEN [t EXCEPT !.cursor = @ + 1] ELSE t
TableMoveUp(t) == IF t.cursor > 0 THEN [t EXCEPT !.cursor = @ - 1] ELSE t
TableGotoTop(t) == [t EXCEPT !.cursor = 0]
TableGotoBottom(t) == IF Len(t.rows) > 0 THEN [t EXCEPT !.cursor = Len(t.rows) - 1] ELSE t

NewDetailPanel == [title |-> NoItem, rows |-> <<>>, width |-> 0, height |-> 0]

NewSidebar == [active |-> 0, focused |-> TRUE, height |-> 0, width |-> 20]

SidebarNext(s) == IF s.active < Cardinality(ViewTypes) - 1 THEN [s EXCEPT !.active = @ + 1] ELSE s
SidebarPrev(s) == IF s.active > 0 THEN [s EXCEPT !.active = @ - 1] ELSE s

NewStatusBar == [profile |-> "", left |-> [name |-> "", count |-> -1],
                 loading |-> FALSE, text |-> "", width |-> 0]

NewSpinner(label) == [spinning |-> FALSE, label |-> label]

\* the bindings of DefaultKeyMap
KeyBindings ==
    [Quit |-> {"q", "ctrl+c"}, Help |-> {"?"}, Tab |-> {"tab"},
     Back |-> {"esc"}, Enter |-> {"enter"},
     Up |-> {"up", "k"}, Down |-> {"down", "j"},
     Left |-> {"left", "h"}, Right |-> {"right", "l"},
     View1 |-> {"1"}, View2 |-> {"2"}, View3 |-> {"3"}, View4 |-> {"4"},
     View5 |-> {"5"}]

KeyMatches(k, binding) == k \in KeyBindings[binding]

\* the keys the operator presses in the model ("x" is a key bound to nothing)
Keys == {"q", "?", "tab", "esc", "enter", "1", "2", "5",
         "j", "k", "g", "G", "r", "h", "l", "x"}

\* the terminal sizes the host reports
Sizes == { <<80, 24>> }

----------------------------------------------------------------------------
(* internal/tui/views: the five views.  They share one shape; FormsView    *)
(* adds the type tab and reserves four rows for its tab strip.             *)

TabRows(v) == IF v = ViewForms THEN 4 ELSE 0

NewView(v) ==
    [items |-> <<>>, loading |-> TRUE, err |-> 0, width |-> 0, height |-> 0,
     focused |-> FALSE, showingDetail |-> FALSE, activeTab |-> FormTypePopup,
     table |-> NewTable, detail |-> NewDetailPanel]

ViewSetSize(v, view, w, h) ==
    [view EXCEPT !.width = w, !.height = h,
                 !.table = TableSetSize(@, w, h - TabRows(v))]

ViewSetFocused(view, f) ==
    [view EXCEPT !.focused = f, !.table = TableSetFocused(@, f)]

\* the command Fetch() returns: a closure over a copy of the view
ViewFetch(v, view) == [kind |-> "fetch", view |-> v, tab |-> view.activeTab]

\* the table's row projection of the items
RowOf(item) == <<"row", item>>

ViewUpdateTable(view) ==
    [view EXCEPT !.table = TableSetLoading(
                     TableSetRows(@, [i \in 1..Len(view.items) |-> RowOf(view.items[i])]),
                     FALSE)]

\* mutant: the items replaced whether or not the fetch failed
ViewUpdateAlwaysReplace(view, msg) ==
    ViewUpdateTable([view EXCEPT !.loading = FALSE, !.err = msg.err, !.items = msg.items])

\* mutant: a message that arrives when the view is not loading is dropped
ViewUpdateWhileLoading(view, msg) ==
    IF ~view.loading
    THEN view
    ELSE LET v1 == [view EXCEPT !.loading = FALSE, !.err = msg.err]
         IN  IF msg.err = 0
             THEN ViewUpdateTable([v1 EXCEPT !.items = msg.items])
             ELSE v1

\* mutant: a successful reload returns the view to its table
ViewUpdateClosingDetail(view, msg) ==
    LET v1 == [view EXCEPT !.loading = FALSE, !.err = msg.err]
    IN  IF msg.err = 0
        THEN ViewUpdateTable([v1 EXCEPT !.items = msg.items, !.showingDetail = FALSE])
        ELSE v1

\* Update on the view's own Loaded message
ViewUpdate(view, msg) ==
    LET v1 == [view EXCEPT !.loading = FALSE, !.err = msg.err]
    IN  IF msg.err = 0
        THEN ViewUpdateTable([v1 EXCEPT !.items = msg.items])
        ELSE v1

\* SelectedSubscriber etc.: 0 stands for nil, otherwise the 1-based index
ViewSelected(view) ==
    LET idx == view.table.cursor
    IN  IF idx >= 0 /\ idx < Len(view.items) THEN idx + 1 ELSE 0

DetailRows(item) == <<[label |-> "ID", value |-> item]>>

\* mutant: the detail panel populated from the first item
ViewShowDetailFirst(v, view) ==
    LET sel == ViewSelected(view)
    IN  IF sel = 0
        THEN view
        ELSE [view EXCEPT !.detail = [title |-> view.items[1],
                                      rows |-> DetailRows(view.items[1]),
                                      width |-> view.width,
                                      height |-> view.height - TabRows(v)],
                          !.showingDetail = TRUE]

\* mutant: the detail panel opened without a selected item
ViewShowDetailUnchecked(v, view) ==
    LET sel == ViewSelected(view)
    IN  IF sel = 0
        THEN [view EXCEPT !.showingDetail = TRUE]
        ELSE [view EXCEPT !.detail = [title |-> view.items[sel],
                                      rows |-> DetailRows(view.items[sel]),
                                      width |-> view.width,
                                      height |-> view.height - TabRows(v)],
                          !.showingDetail = TRUE]

ViewShowDetail(v, view) ==
    LET sel == ViewSelected(view)
    IN  IF sel = 0
        THEN view
        ELSE [view EXCEPT !.detail = [title |-> view.items[sel],
                                      rows |-> DetailRows(view.items[sel]),
                                      width |-> view.width,
                                      height |-> view.height - TabRows(v)],
                          !.showingDetail = TRUE]

NextTab(tab) == (tab + 1) % 3

PrevTab(tab) == IF tab - 1 < 0 THEN 2 ELSE tab - 1

\* refresh: loading state re-entered, Fetch re-dispatched
ViewRefresh(v, view) ==
    LET v1 == [view EXCEPT !.loading = TRUE, !.table = TableSetLoading(@, TRUE)]
    IN  [view |-> v1, cmd |-> <<ViewFetch(v, v1)>>]

\* mutant: the refetch is built before the tab is changed
ViewChangeTabStaleFetch(v, view, tab) ==
    LET v1 == [view EXCEPT !.activeTab = tab, !.loading = TRUE]
    IN  [view |-> v1, cmd |-> <<ViewFetch(v, view)>>]

ViewChangeTab(v, view, tab) ==
    LET v1 == [view EXCEPT !.activeTab = tab, !.loading = TRUE]
    IN  [view |-> v1, cmd |-> <<ViewFetch(v, v1)>>]

\* HandleKey: the view after the key and the command returned
ViewHandleKey(v, view, k) ==
    IF view.showingDetail
    THEN [view |-> IF k \in {"esc", "backspace", "q"}
                   THEN [view EXCEPT !.showingDetail = FALSE]
                   ELSE view,
          cmd |-> <<>>]
    ELSE CASE k \in {"j", "down"} ->
                [view |-> [view EXCEPT !.table = TableMoveDown(@)], cmd |-> <<>>]
           [] k \in {"k", "up"} ->
                [view |-> [view EXCEPT !.table = TableMoveUp(@)], cmd |-> <<>>]
           [] k = "g" ->
                [view |-> [view EXCEPT !.table = TableGotoTop(@)], cmd |-> <<>>]
           [] k = "G" ->
                [view |-> [view EXCEPT !.table = TableGotoBottom(@)], cmd |-> <<>>]
           [] v = ViewForms /\ k \in {"h", "left"} ->
                ViewChangeTab(v, view, PrevTab(view.activeTab))
           [] v = ViewForms /\ k \in {"l", "right"} ->
                ViewChangeTab(v, view, NextTab(view.activeTab))
           [] k = "enter" ->
                [view |-> ViewShowDetail(v, view), cmd |-> <<>>]
           [] k = "r" -> ViewRefresh(v, view)
           [] OTHER -> [view |-> view, cmd |-> <<>>]

----------------------------------------------------------------------------
(* internal/tui/app.go: the application model.  A method of *App is an     *)
(* operator from the App value to the App value after the call; a method   *)
(* that returns a tea.Cmd yields [a, cmd] with cmd the batch of commands.  *)

NoCmd == <<>>

QuitCmd == [kind |-> "quit", view |-> 0, tab |-> 0]

NewApp ==
    [activeView |-> ViewSubscribers, focus |-> "FocusContent",
     width |-> 0, height |-> 0, showHelp |-> FALSE, err |-> 0,
     initialized |-> FALSE,
     sidebar |-> [NewSidebar EXCEPT !.focused = FALSE],
     statusbar |-> NewStatusBar,
     spinner |-> NewSpinner("Loading..."),
     help |-> [width |-> 0, height |-> 0],
     views |-> [v \in ViewTypes |->
                  IF v = ViewSubscribers THEN ViewSetFocused(NewView(v), TRUE)
                                         ELSE NewView(v)]]

setCurrentViewFocused(a, focused) ==
    [a EXCEPT !.views[a.activeView] = ViewSetFocused(@, focused)]

updateStatusBar(a) ==
    LET view == a.views[a.activeView]
        name == ViewString(a.activeView)
    IN  IF view.loading
        THEN [a EXCEPT !.statusbar.profile = "profile",
                       !.statusbar.left = [name |-> name, count |-> -1],
                       !.statusbar.loading = TRUE,
                       !.statusbar.text = "Loading...",
                       !.spinner.spinning = TRUE]
        ELSE [a EXCEPT !.statusbar.profile = "profile",
                       !.statusbar.left = [name |-> name, count |-> Len(view.items)],
                       !.statusbar.loading = FALSE,
                       !.statusbar.text = "",
                       !.spinner.spinning = FALSE]

fetchCurrentView(a) ==
    LET a1 == [a EXCEPT !.spinner.spinning = TRUE,
                        !.spinner.label = "Loading " \o ViewString(a.activeView) \o "..."]
    IN  [a |-> a1, cmd |-> <<ViewFetch(a.activeView, a.views[a.activeView])>>]

\* mutant: the incoming view's cached items dropped on the switch
switchViewClearing(a, v) ==
    IF a.activeView = v
    THEN [a |-> a, cmd |-> NoCmd]
    ELSE LET a1 == setCurrentViewFocused(a, FALSE)
             a2 == [a1 EXCEPT !.activeView = v, !.sidebar.active = v,
                              !.views[v].items = <<>>]
             a3 == setCurrentViewFocused(a2, a2.focus = "FocusContent")
         IN  fetchCurrentView(updateStatusBar(a3))

\* mutant: no early return for the view that is already active
switchViewAlways(a, v) ==
    LET a1 == setCurrentViewFocused(a, FALSE)
        a2 == [a1 EXCEPT !.activeView = v, !.sidebar.active = v]
        a3 == setCurrentViewFocused(a2, a2.focus = "FocusContent")
    IN  fetchCurrentView(updateStatusBar(a3))

\* mutant: the outgoing view keeps its focus
switchViewKeepFocus(a, v) ==
    IF a.activeView = v
    THEN [a |-> a, cmd |-> NoCmd]
    ELSE LET a2 == [a EXCEPT !.activeView = v, !.sidebar.active = v]
             a3 == setCurrentViewFocused(a2, a2.focus = "FocusContent")
         IN  fetchCurrentView(updateStatusBar(a3))

switchView(a, v) ==
    IF a.activeView = v
    THEN [a |-> a, cmd |-> NoCmd]
    ELSE LET a1 == setCurrentViewFocused(a, FALSE)
             a2 == [a1 EXCEPT !.activeView = v, !.sidebar.active = v]
             a3 == setCurrentViewFocused(a2, a2.focus = "FocusContent")
         IN  fetchCurrentView(updateStatusBar(a3))

\* mutant: the active view not told that it regained the focus
toggleFocusViewStale(a) ==
    IF a.focus = "FocusSidebar"
    THEN [a EXCEPT !.focus = "FocusContent", !.sidebar.focused = FALSE]
    ELSE setCurrentViewFocused(
             [a EXCEPT !.focus = "FocusSidebar", !.sidebar.focused = TRUE], FALSE)

toggleFocus(a) ==
    IF a.focus = "FocusSidebar"
    THEN setCurrentViewFocused(
             [a EXCEPT !.focus = "FocusContent", !.sidebar.focused = FALSE], TRUE)
    ELSE setCurrentViewFocused(
             [a EXCEPT !.focus = "FocusSidebar", !.sidebar.focused = TRUE], FALSE)

\* mutant: the sidebar keeps its focus when the key hands it to the content
handleSidebarKeyStale(a, k) ==
    CASE KeyMatches(k, "Down") ->
            LET a1 == [a EXCEPT !.sidebar = SidebarNext(@)]
            IN  switchView(a1, a1.sidebar.active)
      [] KeyMatches(k, "Up") ->
            LET a1 == [a EXCEPT !.sidebar = SidebarPrev(@)]
            IN  switchView(a1, a1.sidebar.active)
      [] KeyMatches(k, "Enter") \/ KeyMatches(k, "Right") ->
            [a |-> setCurrentViewFocused([a EXCEPT !.focus = "FocusContent"], TRUE),
             cmd |-> NoCmd]
      [] OTHER -> [a |-> a, cmd |-> NoCmd]

handleSidebarKey(a, k) ==
    CASE KeyMatches(k, "Down") ->
            LET a1 == [a EXCEPT !.sidebar = SidebarNext(@)]
            IN  switchView(a1, a1.sidebar.active)
      [] KeyMatches(k, "Up") ->
            LET a1 == [a EXCEPT !.sidebar = SidebarPrev(@)]
            IN  switchView(a1, a1.sidebar.active)
      [] KeyMatches(k, "Enter") \/ KeyMatches(k, "Right") ->
            [a |-> setCurrentViewFocused(
                       [a EXCEPT !.focus = "FocusContent", !.sidebar.focused = FALSE],
                       TRUE),
             cmd |-> NoCmd]
      [] OTHER -> [a |-> a, cmd |-> NoCmd]

\* mutant: the key handed to every view, not only to the active one
handleContentKeyAll(a, k) ==
    LET r == ViewHandleKey(a.activeView, a.views[a.activeView], k)
    IN  [a |-> [a EXCEPT !.views = [v \in ViewTypes |-> ViewHandleKey(v, a.views[v], k).view]],
         cmd |-> r.cmd]

handleContentKey(a, k) ==
    LET r == ViewHandleKey(a.activeView, a.views[a.activeView], k)
    IN  [a |-> [a EXCEPT !.views[a.activeView] = r.view], cmd |-> r.cmd]

updateLayout(a) ==
    LET contentHeight == a.height - 4
        contentWidth == a.width - a.sidebar.width - 2
        a1 == [a EXCEPT !.sidebar.height = contentHeight,
                        !.statusbar.width = a.width,
                        !.help = [width |-> a.width, height |-> a.height],
                        !.views = [v \in ViewTypes |->
                                     ViewSetSize(v, a.views[v], contentWidth, contentHeight)]]
    IN  updateStatusBar(a1)

\* Spinner.Update: a tick redraws the animation; the frame is not part of
\* the model
SpinnerUpdate(sp, msg) == sp

\* mutant: every Loaded message handed to the active view's neighbour case
LoadedTargetShifted(msg) == IF msg.view = ViewSubscribers THEN ViewCampaigns ELSE msg.view

\* the route of a Loaded message: the view whose Update receives it
LoadedTarget(msg) == msg.view

\* mutant: the quit binding honoured under the help overlay
helpOverlayKeyQuits(a, k) ==
    IF KeyMatches(k, "Quit")
    THEN [a |-> a, cmd |-> <<QuitCmd>>]
    ELSE IF KeyMatches(k, "Help") \/ KeyMatches(k, "Back")
         THEN [a |-> [a EXCEPT !.showHelp = FALSE], cmd |-> NoCmd]
         ELSE [a |-> a, cmd |-> NoCmd]

\* case tea.KeyMsg while the help overlay is open
helpOverlayKey(a, k) ==
    IF KeyMatches(k, "Help") \/ KeyMatches(k, "Back")
    THEN [a |-> [a EXCEPT !.showHelp = FALSE], cmd |-> NoCmd]
    ELSE [a |-> a, cmd |-> NoCmd]

updateKey(a, k) ==
    IF a.showHelp
    THEN helpOverlayKey(a, k)
    ELSE CASE KeyMatches(k, "Quit") -> [a |-> a, cmd |-> <<QuitCmd>>]
           [] KeyMatches(k, "Help") -> [a |-> [a EXCEPT !.showHelp = TRUE], cmd |-> NoCmd]
           [] KeyMatches(k, "Tab") -> [a |-> toggleFocus(a), cmd |-> NoCmd]
           [] KeyMatches(k, "View1") -> switchView(a, ViewSubscribers)
           [] KeyMatches(k, "View2") -> switchView(a, ViewCampaigns)
           [] KeyMatches(k, "View3") -> switchView(a, ViewAutomations)
           [] KeyMatches(k, "View4") -> switchView(a, ViewGroups)
           [] KeyMatches(k, "View5") -> switchView(a, ViewForms)
           [] OTHER -> IF a.focus = "FocusSidebar"
                       THEN handleSidebarKey(a, k)
                       ELSE handleContentKey(a, k)

\* mutant: a failed fetch retried by the Loaded case
UpdateRetrying(a, msg) ==
    CASE msg.type = "WindowSizeMsg" ->
            LET a1 == updateLayout([a EXCEPT !.width = msg.width, !.height = msg.height])
            IN  [a |-> [a1 EXCEPT !.initialized = TRUE,
                                  !.spinner = SpinnerUpdate(@, msg)],
                 cmd |-> NoCmd]
      [] msg.type = "KeyMsg" -> updateKey(a, msg.key)
      [] msg.type = "LoadedMsg" ->
            LET a1 == [a EXCEPT !.views[LoadedTarget(msg)] = ViewUpdate(@, msg)]
                a2 == updateStatusBar(a1)
            IN  [a |-> [a2 EXCEPT !.spinner = SpinnerUpdate(@, msg)],
                 cmd |-> IF msg.err # 0
                         THEN <<ViewFetch(msg.view, a2.views[msg.view])>>
                         ELSE NoCmd]
      [] msg.type = "ErrorMsg" ->
            [a |-> [a EXCEPT !.err = msg.err, !.spinner = SpinnerUpdate(@, msg)],
             cmd |-> NoCmd]
      [] OTHER ->
            [a |-> [a EXCEPT !.spinner = SpinnerUpdate(@, msg)], cmd |-> NoCmd]

\* App.Update
Update(a, msg) ==
    CASE msg.type = "WindowSizeMsg" ->
            LET a1 == updateLayout([a EXCEPT !.width = msg.width, !.height = msg.height])
            IN  [a |-> [a1 EXCEPT !.initialized = TRUE,
                                  !.spinner = SpinnerUpdate(@, msg)],
                 cmd |-> NoCmd]
      [] msg.type = "KeyMsg" -> updateKey(a, msg.key)
      [] msg.type = "LoadedMsg" ->
            LET a1 == [a EXCEPT !.views[LoadedTarget(msg)] = ViewUpdate(@, msg)]
                a2 == updateStatusBar(a1)
            IN  [a |-> [a2 EXCEPT !.spinner = SpinnerUpdate(@, msg)], cmd |-> NoCmd]
      [] msg.type = "ErrorMsg" ->
            [a |-> [a EXCEPT !.err = msg.err, !.spinner = SpinnerUpdate(@, msg)],
             cmd |-> NoCmd]
      [] OTHER ->
            [a |-> [a EXCEPT !.spinner = SpinnerUpdate(@, msg)], cmd |-> NoCmd]

----------------------------------------------------------------------------
(* The Bubble Tea program: it runs App.Init, feeds every message to        *)
(* App.Update and runs each returned command in its own goroutine; the      *)
(* command's message reaches Update through the program's unbuffered        *)
(* message channel.                                                         *)

FetchCmds(cmd) == { i \in 1..Len(cmd) : cmd[i].kind = "fetch" }

\* run the batch a handler returned
Dispatch(cmd) ==
    /\ nextId + Cardinality(FetchCmds(cmd)) <= Len(fetchLog)
    /\ running' = running \cup
           { [id |-> nextId + i, view |-> cmd[i].view, tab |-> cmd[i].tab] :
               i \in FetchCmds(cmd) }
    /\ nextId' = nextId + Cardinality(FetchCmds(cmd))
    /\ fetchLog' = [id \in DOMAIN fetchLog |->
                      IF id - nextId \in FetchCmds(cmd)
                      THEN [with |-> { g.id : g \in { h \in running :
                                                        h.view = cmd[id - nextId].view } },
                            delivered |-> 0]
                      ELSE fetchLog[id]]
    /\ quit' = (quit \/ \E i \in 1..Len(cmd) : cmd[i].kind = "quit")

\* the messages of a fetch from an account that holds at most `most` items
FetchMsgsUpTo(f, most) ==
    { [type |-> "LoadedMsg", view |-> f.view, items |-> ItemList(f, n), err |-> 0] :
        n \in 0..most }
    \cup { [type |-> "LoadedMsg", view |-> f.view, items |-> <<>>, err |-> 1] }

\* mutant: the closure builds the Loaded message of another view
FetchMsgsOtherView(f) ==
    { [type |-> "LoadedMsg", view |-> (f.view + 1) % 5, items |-> ItemList(f, n), err |-> 0] :
        n \in 0..MaxItems }
    \cup { [type |-> "LoadedMsg", view |-> (f.view + 1) % 5, items |-> <<>>, err |-> 1] }

\* the messages the closure returned by Fetch() can produce: the fetched items
\* or an error (err 1 stands for WrapError's result, 0 for nil); without a
\* client it is the empty success, the n = 0 message
FetchMsgs(f) == FetchMsgsUpTo(f, MaxItems)

\* what is left running once command f has returned its message
AfterReturn(f) == running \ {f}

AppInit ==
    /\ ~started
    /\ started' = TRUE
    /\ LET r == fetchCurrentView(app)
       IN  app' = r.a /\ Dispatch(r.cmd)
    /\ UNCHANGED pgVars

WindowSizeMsg(size) ==
    /\ started /\ ~quit
    /\ LET r == Update(app, [type |-> "WindowSizeMsg", width |-> size[1], height |-> size[2]])
       IN  app' = r.a /\ Dispatch(r.cmd)
    /\ UNCHANGED <<started, pgVars>>

KeyMsg(k) ==
    /\ started /\ ~quit
    /\ LET r == Update(app, [type |-> "KeyMsg", key |-> k])
       IN  app' = r.a /\ Dispatch(r.cmd)
    /\ UNCHANGED <<started, pgVars>>

\* a fetch command returns and its message is handled
LoadedMsg(f, msg) ==
    /\ started /\ ~quit
    /\ f \in running
    /\ msg \in FetchMsgs(f)
    /\ running' = AfterReturn(f)
    /\ fetchLog' = [fetchLog EXCEPT ![f.id].delivered = @ + 1]
    /\ LET r == Update(app, msg)
       IN  app' = r.a
    /\ UNCHANGED <<started, quit, nextId, pgVars>>

ErrorMsg ==
    /\ started /\ ~quit
    /\ LET r == Update(app, [type |-> "ErrorMsg", err |-> 1])
       IN  app' = r.a /\ Dispatch(r.cmd)
    /\ UNCHANGED <<started, pgVars>>

TickMsg ==
    /\ started /\ ~quit
    /\ LET r == Update(app, [type |-> "TickMsg"])
       IN  app' = r.a /\ Dispatch(r.cmd)
    /\ UNCHANGED <<started, pgVars>>

----------------------------------------------------------------------------
(* Specifications *)

PgIdle ==
    /\ fetcher = "none" /\ limit = 0 /\ pages = <<>> /\ perPage = 0
    /\ allItems = <<>> /\ position = 0 /\ requests = <<>> /\ pc = "idle"
    /\ retItems = <<>> /\ retErr = 0

TuiStart ==
    /\ app = NewApp
    /\ started = FALSE
    /\ quit = FALSE
    /\ running = {}
    /\ nextId = 0
    /\ fetchLog = [id \in 1..MaxFetches |-> [with |-> {}, delivered |-> 0]]

Init ==
    /\ PgIdle
    /\ TuiStart

Next ==
    \/ AppInit
    \/ \E size \in Sizes : WindowSizeMsg(size)
    \/ \E k \in Keys : KeyMsg(k)
    \/ \E f \in running : \E msg \in FetchMsgs(f) : LoadedMsg(f, msg)
    \/ TickMsg

Spec == Init /\ [][Next]_vars

\* the command of fetch id returns and its message is handled
Deliver(id) ==
    \E f \in running : f.id = id /\ \E msg \in FetchMsgs(f) : LoadedMsg(f, msg)

\* the keys of the fair specification: those that quit, open the help
\* overlay, dispatch a fetch, move the focus or the selection, and one bound
\* to nothing
FairKeys == {"q", "?", "tab", "1", "2", "5", "j", "k", "r", "h", "l", "x"}

NextFair ==
    \/ AppInit
    \/ \E size \in Sizes : WindowSizeMsg(size)
    \/ \E k \in FairKeys : KeyMsg(k)
    \/ \E id \in 1..MaxFetches : Deliver(id)
    \/ TickMsg

\* Every fetch goroutine returns (its context times out after 30 s at the
\* latest) and the event loop receives from every sender on its channel.
FairSpec ==
    /\ Init
    /\ [][NextFair]_vars
    /\ WF_vars(AppInit)
    /\ \A id \in 1..MaxFetches : WF_vars(Deliver(id))

InitFetch ==
    /\ fetcher \in {"FetchAll", "FetchAllStringCursor", "FetchAllCursor"}
    /\ limit \in Limits
    /\ pages \in PageScripts
    /\ perPage = PerPageFor(limit)
    /\ allItems = <<>>
    /\ position = StartPosition(fetcher)
    /\ requests = <<>>
    /\ pc = "loop"
    /\ retItems = <<>>
    /\ retErr = 0
    /\ TuiStart

NextFetch == FetchAll \/ FetchAllStringCursor \/ FetchAllCursor

SpecFetch == InitFetch /\ [][NextFetch]_vars

\* FetchAll as the commands and the views call it.  The limit is the value of
\* an integer flag, which may be negative; the page function is the closure
\* of a caller, which answers an API error with no items and no next page.
PageLimits == Limits \cup {0 - 1}

CallerScripts ==
    { s \in PageScripts :
        \A k \in 1..Len(s) : s[k].err # 0 => (s[k].n = 0 /\ s[k].next = 0) }

InitPages ==
    /\ fetcher = "FetchAll"
    /\ limit \in PageLimits
    /\ pages \in CallerScripts
    /\ perPage = PerPageFor(limit)
    /\ allItems = <<>>
    /\ position = StartPosition(fetcher)
    /\ requests = <<>>
    /\ pc = "loop"
    /\ retItems = <<>>
    /\ retErr = 0
    /\ TuiStart

SpecPages == InitPages /\ [][FetchAll]_vars

\* the loop is synchronous: it runs until it returns
FairPages == SpecPages /\ WF_vars(FetchAll)

\* The dashboard of an operator who toggles the focus, opens and closes the
\* help overlay, moves between the Subscribers and the Forms view and between
\* the Forms tabs, but never asks for a refresh; one fetch more than in Spec
\* may be dispatched.
NavKeys == {"?", "tab", "1", "5", "h", "l"}

InitNav ==
    /\ PgIdle
    /\ app = NewApp
    /\ started = FALSE
    /\ quit = FALSE
    /\ running = {}
    /\ nextId = 0
    /\ fetchLog = [id \in 1..(MaxFetches + 1) |-> [with |-> {}, delivered |-> 0]]

NextNav ==
    \/ AppInit
    \/ \E size \in Sizes : WindowSizeMsg(size)
    \/ \E k \in NavKeys : KeyMsg(k)
    \/ \E f \in running : \E msg \in FetchMsgs(f) : LoadedMsg(f, msg)
    \/ TickMsg

SpecNav == InitNav /\ [][NextNav]_vars

\* The dashboard of an operator who moves the cursor, opens and closes the
\* detail panel and refreshes, on the Subscribers and the Forms view, with an
\* account that holds one item more than in Spec, so that the cursor can
\* leave the first row.
MaxListed == MaxItems + 1

DetailKeys == {"enter", "esc", "backspace", "j", "k", "r", "5"}

\* a fetch command returns one of the longer lists and its message is handled
LoadedMsgLong(f, msg) ==
    /\ started /\ ~quit
    /\ f \in running
    /\ msg \in FetchMsgsUpTo(f, MaxListed)
    /\ running' = AfterReturn(f)
    /\ fetchLog' = [fetchLog EXCEPT ![f.id].delivered = @ + 1]
    /\ LET r == Update(app, msg)
       IN  app' = r.a
    /\ UNCHANGED <<started, quit, nextId, pgVars>>

NextDetail ==
    \/ AppInit
    \/ \E size \in Sizes : WindowSizeMsg(size)
    \/ \E k \in DetailKeys : KeyMsg(k)
    \/ \E f \in running : \E msg \in FetchMsgsUpTo(f, MaxListed) : LoadedMsgLong(f, msg)
    \/ TickMsg

SpecDetail == Init /\ [][NextDetail]_vars

\* The dashboard of an operator who opens and closes the detail panel, on the
\* Subscribers and the Forms view, in a terminal that is resized between two
\* sizes.
ResizeSizes == { <<80, 24>>, <<100, 30>> }

ResizeKeys == {"enter", "esc", "5"}

NextResize ==
    \/ AppInit
    \/ \E size \in ResizeSizes : WindowSizeMsg(size)
    \/ \E k \in ResizeKeys : KeyMsg(k)
    \/ \E f \in running : \E msg \in FetchMsgs(f) : LoadedMsg(f, msg)
    \/ TickMsg

SpecResize == Init /\ [][NextResize]_vars

----------------------------------------------------------------------------
(* Claims about the pagination fetchers (SpecFetch) *)

RECURSIVE ConcatPages(_)
\* the items of the pages of calls 1..k, in page order
ConcatPages(k) == IF k = 0 THEN <<>> ELSE ConcatPages(k - 1) \o ItemsOf(k)

RECURSIVE SumItems(_)
\* the number of items of the scripted pages 1..k
SumItems(k) == IF k = 0 THEN 0 ELSE SumItems(k - 1) + pages[k].n

NoErrors == \A k \in 1..Len(pages) : pages[k].err = 0

LastPage == pages[Len(pages)]

\* the last page announces a next page and carries items: the sequence never ends
Endless == LastPage.next # 0 /\ LastPage.n > 0

\* the page sequence holds at least lim items
AvailableAtLeast(lim) == Endless \/ SumItems(Len(pages)) >= lim

CursorFetcher == fetcher \in {"FetchAllStringCursor", "FetchAllCursor"}

EmptyPages == { k \in 1..Len(pages) : pages[k].n = 0 }

FirstEmpty == CHOOSE k \in EmptyPages : \A j \in EmptyPages : k <= j

\* the last scripted page the protocol reaches when no limit cuts the fetch
\* short: the first empty page for the cursor fetchers, the last page otherwise
StopIndex == IF CursorFetcher /\ EmptyPages # {} THEN FirstEmpty ELSE Len(pages)

\* the pages up to StopIndex hold at least lim items
ServedAtLeast(lim) ==
    \/ SumItems(StopIndex) >= lim
    \/ StopIndex = Len(pages) /\ Endless

\* C2: with a limit L > 0 each fetcher returns at most L items, and they are
\* a prefix of the concatenation, in page order, of the pages it fetched.
C2_AtMostLimitPrefix ==
    (pc = "done" /\ limit > 0) =>
        /\ Len(retItems) <= limit
        /\ IsPrefix(retItems, ConcatPages(Len(requests)))

\* a fetch of two pages whose items exceed the limit was cut to the limit
C2_Witness ==
    /\ pc = "done" /\ limit > 0 /\ retErr = 0
    /\ Len(requests) >= 2
    /\ Len(ConcatPages(Len(requests))) > limit
    /\ Len(retItems) = limit

\* C3 as stated: with a limit L > 0 and an (error-free) page sequence holding
\* at least L items, every fetcher returns exactly L items.
C3_Original ==
    (pc = "done" /\ limit > 0 /\ NoErrors /\ AvailableAtLeast(limit)) =>
        Len(retItems) = limit

\* C3 amended: with a limit L > 0 and an error-free page sequence, a fetcher
\* returns exactly L items when the pages it is served hold at least L: all
\* pages for the page-based fetcher, the pages before the first empty page for
\* the two cursor fetchers.
C3_ExactlyLimit ==
    (pc = "done" /\ limit > 0 /\ NoErrors /\ ServedAtLeast(limit)) =>
        Len(retItems) = limit

\* a cursor fetcher gathered the limit over two calls
C3_Witness ==
    /\ pc = "done" /\ limit > 0 /\ NoErrors /\ ServedAtLeast(limit)
    /\ CursorFetcher
    /\ Len(requests) >= 2
    /\ Len(retItems) = limit

\* C4 as stated: with limit 0 every fetcher returns the concatenation of all
\* pages of the page sequence.
C4_Original ==
    (pc = "done" /\ limit = 0 /\ NoErrors) =>
        retItems = ConcatPages(Len(pages))

\* C4 amended: with limit 0 and an error-free page sequence, the page-based
\* fetcher returns the concatenation of all pages, and a cursor fetcher the
\* concatenation of the pages up to the first empty page (all pages when none
\* is empty), in page order, nothing dropped, duplicated or truncated.
C4_FullConcatenation ==
    (pc = "done" /\ limit = 0 /\ NoErrors) =>
        /\ Len(requests) = StopIndex
        /\ retItems = ConcatPages(StopIndex)

\* an unlimited fetch returned the items of two pages
C4_Witness ==
    /\ pc = "done" /\ limit = 0 /\ NoErrors
    /\ Len(requests) >= 2
    /\ Len(retItems) >= 2
    /\ PageAt(1).n > 0 /\ PageAt(2).n > 0

\* C5: a cursor fetcher returns after the first call that yields zero items,
\* whatever next cursor came with it, and requests no further page.
C5_EmptyPageStops ==
    CursorFetcher =>
        \A k \in 1..Len(requests) :
            PageAt(k).n = 0 => (pc = "done" /\ Len(requests) = k)

\* the string-cursor fetcher returned on an empty page that named a next cursor
C5_Witness ==
    /\ fetcher = "FetchAllStringCursor"
    /\ pc = "done" /\ retErr = 0
    /\ PageAt(Len(requests)).n = 0
    /\ PageAt(Len(requests)).next # 0

\* C6: the first page-function call that returns an error ends the fetch: no
\* further call, that error returned, and no items returned.
C6_ErrorAborts ==
    \A k \in 1..Len(requests) :
        PageAt(k).err # 0 =>
            /\ pc = "done"
            /\ Len(requests) = k
            /\ retErr = PageAt(k).err
            /\ retItems = <<>>

\* the second call failed after the first page had been accumulated
C6_Witness ==
    /\ pc = "done" /\ retErr # 0
    /\ Len(requests) = 2
    /\ allItems # <<>>
    /\ retItems = <<>>

----------------------------------------------------------------------------
(* Claims about the dashboard (Spec, FairSpec) *)

Outstanding(id) == \E f \in running : f.id = id

OutstandingFor(v) == { f \in running : f.view = v }

\* fetches a and b of one view were outstanding at the same time
Overlapped(a, b) ==
    a \in fetchLog[b].with \/ b \in fetchLog[a].with

\* C1: while a fetch dispatched for a view awaits the processing of its Loaded
\* message, the view's loading flag is true.
C1_LoadingWhileOutstanding ==
    \A f \in running : app.views[f.view].loading

\* C7: processing a Loaded message leaves the four other views unchanged,
\* whichever view is active.
C7_LoadedChangesOwnViewOnly ==
    [][\A f \in running \ running' : \A msg \in FetchMsgs(f) :
          LoadedMsg(f, msg) =>
              \A w \in ViewTypes \ {f.view} : app'.views[w] = app.views[w]]_vars

\* a failed fetch of a view that is not the active one was processed while
\* the active view is still loading
C7_Witness ==
    \E v \in ViewTypes :
        /\ v # app.activeView
        /\ fetchLog[1].delivered = 1
        /\ app.views[v].err # 0 /\ ~app.views[v].loading
        /\ app.views[app.activeView].loading /\ app.views[app.activeView].err = 0

\* C8: a Loaded message that carries an error clears loading and stores the
\* error, leaves the items and the table rows as they were, and does not end
\* the program.
C8_ErrorKeepsItems ==
    [][\A f \in running \ running' : \A msg \in FetchMsgs(f) :
          (LoadedMsg(f, msg) /\ msg.err # 0) =>
              /\ app'.views[f.view].loading = FALSE
              /\ app'.views[f.view].err = msg.err
              /\ app'.views[f.view].items = app.views[f.view].items
              /\ app'.views[f.view].table.rows = app.views[f.view].table.rows
              /\ ~quit']_vars

\* a view shows an error above the items of an earlier fetch
C8_Witness ==
    \E v \in ViewTypes :
        /\ app.views[v].err # 0 /\ ~app.views[v].loading
        /\ app.views[v].items # <<>>
        /\ app.views[v].table.rows # <<>>
        /\ ~quit

\* the Loaded message of g is the last of two overlapping fetches of its view
LastOfOverlap(g) ==
    /\ OutstandingFor(g.view) = {g}
    /\ \E id \in 1..MaxFetches :
          id # g.id /\ Overlapped(id, g.id) /\ fetchLog[id].delivered = 1

C10_Original ==
    \A id \in 1..MaxFetches : Outstanding(id) ~> (fetchLog[id].delivered = 1)

\* C10 amended: every dispatched fetch delivers at most one message to the
\* event loop, a Loaded message of its own view carrying items or an error,
\* and under fairness exactly one unless the program quits first; while a
\* fetch is outstanding the event loop handles key, resize and tick messages.
C10_ExactlyOneMessage ==
    /\ [](\A id \in 1..MaxFetches : fetchLog[id].delivered <= 1)
    /\ \A id \in 1..MaxFetches :
          Outstanding(id) ~> ((fetchLog[id].delivered = 1 /\ ~Outstanding(id)) \/ quit)
    /\ [][\A f \in running \ running' : \A msg \in FetchMsgs(f) :
             LoadedMsg(f, msg) =>
                 /\ msg.type = "LoadedMsg"
                 /\ msg.view = f.view
                 /\ (msg.err = 0 \/ msg.items = <<>>)
                 /\ ~app'.views[f.view].loading]_vars
    /\ []((running # {} /\ ~quit) =>
             /\ \A k \in {"q", "?", "tab", "esc", "x"} : ENABLED KeyMsg(k)
             /\ \A size \in Sizes : ENABLED WindowSizeMsg(size)
             /\ ENABLED TickMsg)

\* one fetch has delivered its message while another is still outstanding
C10_Witness ==
    /\ fetchLog[1].delivered = 1
    /\ Outstanding(2)
    /\ ~quit

----------------------------------------------------------------------------
(* Claims about key handling and navigation (Spec, SpecNav) *)

\* App.Update on the key k in the model a: [a, cmd]
OnKey(a, k) == Update(a, [type |-> "KeyMsg", key |-> k])

\* C11 as stated: once a view has loaded items they change only on an explicit
\* refresh; where the operator never requests one (SpecNav), a loaded item
\* list never changes.
C11_Original ==
    [][\A v \in ViewTypes :
          app.views[v].items # <<>> => app'.views[v].items = app.views[v].items]_vars

\* C11 amended: no key event (focus toggle, view switch, tab change) changes
\* any view's item list; a view's items change only in the step that
\* processes a successful Loaded message of a fetch of that view, whichever
\* event dispatched that fetch.
C11_ItemsChangeOnlyOnLoaded ==
    [][\A v \in ViewTypes :
          app'.views[v].items # app.views[v].items =>
              \E f \in running \ running' :
                  /\ f.view = v
                  /\ app'.views[v].err = 0
                  /\ ~app'.views[v].loading]_vars

\* the operator left the loaded Subscribers view for Forms, came back and
\* moved the focus to the sidebar: the items are still there
C11_Witness ==
    /\ app.activeView = ViewSubscribers
    /\ app.focus = "FocusSidebar"
    /\ nextId = 3
    /\ app.views[ViewSubscribers].items # <<>>
    /\ ~app.views[ViewSubscribers].loading

\* every key the bindings or a view's HandleKey name, and one bound to nothing
AllKeys ==
    UNION { KeyBindings[b] : b \in DOMAIN KeyBindings }
        \cup {"j", "k", "g", "G", "r", "h", "l", "backspace", "x"}

\* the shortcut binding of view v
ShortcutOf(v) == <<"View1", "View2", "View3", "View4", "View5">>[v + 1]

GlobalBindings == {"Quit", "Help", "Tab", "View1", "View2", "View3", "View4", "View5"}

IsGlobalKey(k) == \E b \in GlobalBindings : KeyMatches(k, b)

\* a view without its focus flags
Unfocused(view) == ViewSetFocused(view, FALSE)

\* C12: with the help overlay closed, two presses of the toggle-focus key
\* restore the focus area and the focused flags of the sidebar and of the
\* active view, leave the active view and every view's items, loading flag
\* and error as they were, and dispatch no fetch.
C12_ToggleTwice ==
    ~app.showHelp =>
        \A k \in KeyBindings.Tab :
            LET r1 == OnKey(app, k)
                r2 == OnKey(r1.a, k)
                av == app.activeView
            IN  /\ r1.cmd = NoCmd /\ r2.cmd = NoCmd
                /\ r1.a.focus # app.focus
                /\ r2.a.focus = app.focus
                /\ r2.a.sidebar.focused = app.sidebar.focused
                /\ r2.a.views[av].focused = app.views[av].focused
                /\ r2.a.views[av].table.focused = app.views[av].table.focused
                /\ r1.a.activeView = av /\ r2.a.activeView = av
                /\ \A v \in ViewTypes : \A a \in {r1.a, r2.a} :
                       /\ a.views[v].items = app.views[v].items
                       /\ a.views[v].loading = app.views[v].loading
                       /\ a.views[v].err = app.views[v].err

\* the focus was moved to the sidebar of a dashboard that has loaded items
C12_Witness ==
    /\ ~app.showHelp
    /\ app.focus = "FocusSidebar" /\ app.sidebar.focused
    /\ ~app.views[app.activeView].focused
    /\ app.views[app.activeView].items # <<>>

\* C13: with the help overlay closed, the shortcut of the active view, and a
\* sidebar up/down that leaves the selection where it is, change nothing in
\* the model (focus flags, active view, focus area, spinner, status bar) and
\* dispatch no fetch.
C13_SwitchToActiveIsNoOp ==
    ~app.showHelp =>
        /\ \A k \in KeyBindings[ShortcutOf(app.activeView)] :
               OnKey(app, k) = [a |-> app, cmd |-> NoCmd]
        /\ \A k \in KeyBindings.Up \cup KeyBindings.Down :
               LET moved == IF KeyMatches(k, "Down") THEN SidebarNext(app.sidebar)
                                                     ELSE SidebarPrev(app.sidebar)
               IN  (app.focus = "FocusSidebar" /\ moved.active = app.activeView) =>
                       OnKey(app, k) = [a |-> app, cmd |-> NoCmd]

\* the sidebar has the focus with its selection on the last entry, the active
\* view: one more down leaves it there
C13_Witness ==
    /\ ~app.showHelp
    /\ app.focus = "FocusSidebar"
    /\ app.activeView = ViewForms /\ app.sidebar.active = ViewForms
    /\ running # {}

\* the model after a switch from the view old to v, and the command returned
Switched(r, old, v) ==
    /\ r.a.activeView = v
    /\ ~r.a.views[old].focused /\ ~r.a.views[old].table.focused
    /\ r.a.views[v].focused = (app.focus = "FocusContent")
    /\ r.a.sidebar.active = v
    /\ r.a.focus = app.focus
    /\ r.a.statusbar.left.name = ViewString(v)
    /\ r.a.statusbar.loading = app.views[v].loading
    /\ r.a.statusbar.left.count =
           (IF app.views[v].loading THEN -1 ELSE Len(app.views[v].items))
    /\ r.cmd = <<[kind |-> "fetch", view |-> v, tab |-> app.views[v].activeTab]>>

\* C14: with the help overlay closed, a switch to a view v other than the
\* active one (by shortcut, or by a sidebar up/down that moves the selection)
\* makes v the active view and the sidebar selection, unfocuses the outgoing
\* view, focuses v exactly when the focus area is Content, keeps the focus
\* area, recomputes the status bar from v and returns exactly one fetch, for v.
C14_SwitchProtocol ==
    ~app.showHelp =>
        /\ \A v \in ViewTypes \ {app.activeView} : \A k \in KeyBindings[ShortcutOf(v)] :
               Switched(OnKey(app, k), app.activeView, v)
        /\ \A k \in KeyBindings.Up \cup KeyBindings.Down :
               LET moved == IF KeyMatches(k, "Down") THEN SidebarNext(app.sidebar)
                                                     ELSE SidebarPrev(app.sidebar)
               IN  (app.focus = "FocusSidebar" /\ moved.active # app.activeView) =>
                       Switched(OnKey(app, k), app.activeView, moved.active)

\* a switch away from Subscribers happened with the focus in the content: the
\* new view is focused, its fetch is outstanding, Subscribers is unfocused
C14_Witness ==
    /\ app.activeView # ViewSubscribers
    /\ app.focus = "FocusContent"
    /\ app.views[app.activeView].focused
    /\ ~app.views[ViewSubscribers].focused
    /\ \E f \in running : f.view = app.activeView
    /\ app.sidebar.active = app.activeView

\* C15: while the help overlay is open, the help key and the back key close
\* it and do nothing else; every other key (quit, Tab, the view shortcuts,
\* sidebar and view keys) leaves the whole model unchanged; no key returns a
\* fetch or the quit command.
C15_HelpOverlaySwallows ==
    app.showHelp =>
        \A k \in AllKeys :
            OnKey(app, k) =
                [a |-> IF KeyMatches(k, "Help") \/ KeyMatches(k, "Back")
                       THEN [app EXCEPT !.showHelp = FALSE]
                       ELSE app,
                 cmd |-> NoCmd]

\* the overlay is open over a running dashboard that has the focus in the
\* sidebar, shows the Forms view and awaits a fetch
C15_Witness ==
    /\ app.showHelp /\ started /\ ~quit
    /\ app.focus = "FocusSidebar" /\ app.activeView = ViewForms
    /\ running # {}

\* C16: with the help overlay closed, a key that matches a global binding
\* (quit, open-help, toggle-focus, view 1..5) has that binding's effect and
\* reaches neither the sidebar handler nor a view's HandleKey; any other key
\* reaches one handler only: the sidebar's when the focus is Sidebar, the
\* active view's HandleKey when it is Content; no other view ever changes
\* beyond its focus flags.
C16_KeyRouting ==
    ~app.showHelp =>
        \A k \in AllKeys :
            LET r  == OnKey(app, k)
                av == app.activeView
            IN  /\ KeyMatches(k, "Quit") => r = [a |-> app, cmd |-> <<QuitCmd>>]
                /\ KeyMatches(k, "Help") =>
                       r = [a |-> [app EXCEPT !.showHelp = TRUE], cmd |-> NoCmd]
                /\ KeyMatches(k, "Tab") =>
                       r.a.focus # app.focus /\ r.a.sidebar.active = app.sidebar.active
                /\ \A v \in ViewTypes :
                       KeyMatches(k, ShortcutOf(v)) => r.a.activeView = v
                /\ IsGlobalKey(k) =>
                       \A v \in ViewTypes : Unfocused(r.a.views[v]) = Unfocused(app.views[v])
                /\ (~IsGlobalKey(k) /\ app.focus = "FocusSidebar") =>
                       /\ r = handleSidebarKey(app, k)
                       /\ \A v \in ViewTypes :
                              Unfocused(r.a.views[v]) = Unfocused(app.views[v])
                /\ (~IsGlobalKey(k) /\ app.focus = "FocusContent") =>
                       /\ r.a.views[av] = ViewHandleKey(av, app.views[av], k).view
                       /\ r.cmd = ViewHandleKey(av, app.views[av], k).cmd
                       /\ \A v \in ViewTypes \ {av} : r.a.views[v] = app.views[v]
                       /\ r.a.sidebar = app.sidebar
                       /\ r.a.activeView = av /\ r.a.focus = app.focus

\* a tab key reached the Forms view when it was the active view and had the
\* focus, and the focus is now in the sidebar
C16_Witness ==
    /\ ~app.showHelp /\ app.focus = "FocusSidebar"
    /\ app.activeView = ViewForms
    /\ app.views[ViewForms].activeTab # FormTypePopup
    /\ \A v \in ViewTypes \ {ViewForms} : app.views[v].activeTab = FormTypePopup

\* C17: with the focus in the content and the active view's detail panel
\* open, `q` closes the detail panel, keeps the table cursor and does not quit.
C17_QClosesDetail ==
    (~app.showHelp /\ app.focus = "FocusContent"
         /\ app.views[app.activeView].showingDetail) =>
        LET r  == OnKey(app, "q")
            av == app.activeView
        IN  /\ r.cmd = NoCmd
            /\ ~r.a.views[av].showingDetail
            /\ r.a.views[av].table.cursor = app.views[av].table.cursor

\* the tab after a tab key, as the claim words it
TabAfterRight(tab) ==
    CASE tab = FormTypePopup -> FormTypeEmbedded
      [] tab = FormTypeEmbedded -> FormTypePromotion
      [] tab = FormTypePromotion -> FormTypePopup

TabAfterLeft(tab) ==
    CASE tab = FormTypePopup -> FormTypePromotion
      [] tab = FormTypePromotion -> FormTypeEmbedded
      [] tab = FormTypeEmbedded -> FormTypePopup

\* the keys of the Forms tab strip
TabKeys == {"l", "right", "h", "left"}

\* the Forms view receives keys and shows its table
FormsTakesKeys ==
    /\ ~app.showHelp /\ app.focus = "FocusContent"
    /\ app.activeView = ViewForms
    /\ ~app.views[ViewForms].showingDetail

\* C18: the Forms view starts on the Popup tab; `l`/right moves
\* Popup -> Embedded -> Promotion -> Popup and `h`/left the other way, so
\* three presses of one direction return to the starting tab; each press sets
\* the view loading and dispatches exactly one refetch, whose type filter is
\* the tab that press selected.
C18_FormsTabs ==
    /\ NewApp.views[ViewForms].activeTab = FormTypePopup
    /\ FormsTakesKeys =>
        \A k \in TabKeys :
            LET tab == app.views[ViewForms].activeTab
                new == IF k \in {"l", "right"} THEN TabAfterRight(tab)
                                               ELSE TabAfterLeft(tab)
                r1  == OnKey(app, k)
                r2  == OnKey(r1.a, k)
                r3  == OnKey(r2.a, k)
            IN  /\ r1.a.views[ViewForms].activeTab = new
                /\ r1.a.views[ViewForms].loading
                /\ r1.cmd = <<[kind |-> "fetch", view |-> ViewForms, tab |-> new]>>
                /\ \A msg \in FetchMsgs(r1.cmd[1]) :
                       /\ msg.view = ViewForms
                       /\ \A i \in 1..Len(msg.items) : msg.items[i].type = APIValue(new)
                /\ r3.a.views[ViewForms].activeTab = tab
                /\ r2.a.views[ViewForms].activeTab # tab
                /\ Len(r2.cmd) = 1 /\ Len(r3.cmd) = 1
                /\ \A v \in ViewTypes \ {ViewForms} : r1.a.views[v] = app.views[v]

\* `h` was pressed on the Popup tab and the refetch returned promotion forms
C18_Witness ==
    /\ FormsTakesKeys
    /\ app.views[ViewForms].activeTab = FormTypePromotion
    /\ ~app.views[ViewForms].loading
    /\ app.views[ViewForms].items # <<>>
    /\ \A i \in 1..Len(app.views[ViewForms].items) :
           app.views[ViewForms].items[i].type = "promotion"

\* the cursor positions tried on a view's table: one below the first row up to
\* one past the longest list
ProbeCursors == (0 - 1)..(MaxItems + 1)

\* C19: `enter` on a view whose list is empty, or whose table cursor is
\* outside [0, len), does nothing: showingDetail stays false, the detail panel
\* keeps its title and rows, and no command is returned.
C19_EnterWithoutSelection ==
    /\ \A v \in ViewTypes : \A c \in ProbeCursors :
           LET view == [app.views[v] EXCEPT !.table.cursor = c]
           IN  (~view.showingDetail /\ (c < 0 \/ c >= Len(view.items))) =>
                   ViewHandleKey(v, view, "enter") = [view |-> view, cmd |-> <<>>]
    /\ (~app.showHelp /\ app.focus = "FocusContent"
            /\ ~app.views[app.activeView].showingDetail
            /\ app.views[app.activeView].items = <<>>) =>
           OnKey(app, "enter") = [a |-> app, cmd |-> NoCmd]

\* the active view has loaded an empty list and has the focus
C19_Witness ==
    /\ ~app.showHelp /\ app.focus = "FocusContent" /\ started /\ ~quit
    /\ ~app.views[app.activeView].loading
    /\ app.views[app.activeView].err = 0
    /\ app.views[app.activeView].items = <<>>
    /\ ~app.views[app.activeView].showingDetail
    /\ \E id \in 1..nextId : fetchLog[id].delivered = 1

\* the keys that close an open detail panel
CloseKeys == {"esc", "backspace", "q"}

\* C20: in a view with a non-empty list and the cursor at index i, `enter`
\* opens the detail panel populated from item i and returns no command;
\* while the detail is open the view's HandleKey changes nothing and returns
\* nothing for any key but a close key (navigation, refresh and the Forms tab
\* keys included); a close key hides the panel and leaves the cursor at i.
C20_DetailPanel ==
    \A v \in ViewTypes :
        LET view == app.views[v]
            i    == view.table.cursor
            o    == ViewHandleKey(v, view, "enter")
        IN  /\ (~view.showingDetail /\ view.items # <<>> /\ i >= 0 /\ i < Len(view.items)) =>
                   /\ o.cmd = <<>>
                   /\ o.view.showingDetail
                   /\ o.view.detail.title = view.items[i + 1]
                   /\ o.view.detail.rows = DetailRows(view.items[i + 1])
                   /\ o.view.table = view.table /\ o.view.items = view.items
                   /\ \A k \in AllKeys \ CloseKeys :
                          ViewHandleKey(v, o.view, k) = [view |-> o.view, cmd |-> <<>>]
                   /\ \A k \in CloseKeys :
                          ViewHandleKey(v, o.view, k) =
                              [view |-> [o.view EXCEPT !.showingDetail = FALSE], cmd |-> <<>>]
            /\ view.showingDetail =>
                   /\ \A k \in AllKeys \ CloseKeys :
                          ViewHandleKey(v, view, k) = [view |-> view, cmd |-> <<>>]
                   /\ \A k \in CloseKeys :
                          /\ ~ViewHandleKey(v, view, k).view.showingDetail
                          /\ ViewHandleKey(v, view, k).view.table.cursor = i
                          /\ ViewHandleKey(v, view, k).cmd = <<>>
                   /\ (v = app.activeView /\ app.focus = "FocusContent" /\ ~app.showHelp) =>
                          \A k \in AllKeys \ CloseKeys :
                              ~IsGlobalKey(k) => OnKey(app, k) = [a |-> app, cmd |-> NoCmd]

\* the detail panel is open on the second row's item, in the Forms view
C20_Witness ==
    /\ app.activeView = ViewForms /\ app.focus = "FocusContent" /\ ~app.showHelp
    /\ app.views[ViewForms].showingDetail
    /\ app.views[ViewForms].table.cursor = 1
    /\ Len(app.views[ViewForms].items) >= 2
    /\ app.views[ViewForms].detail.title = app.views[ViewForms].items[2]

----------------------------------------------------------------------------
(* Claims about fetch dispatch, the spinner and the status bar *)

\* every message App.Update can receive that is not a key: the Loaded message
\* of any view with any outcome, a resize, an ErrorMsg and a spinner tick
OtherMsgs ==
    UNION { FetchMsgsUpTo([view |-> v, tab |-> t], MaxListed) :
              v \in ViewTypes, t \in {FormTypePopup, FormTypeEmbedded, FormTypePromotion} }
    \cup { [type |-> "WindowSizeMsg", width |-> size[1], height |-> size[2]] : size \in Sizes }
    \cup { [type |-> "ErrorMsg", err |-> 1], [type |-> "TickMsg"] }

\* C21: a fetch is dispatched only by Init or by a key event: App.Update
\* returns no fetch for a Loaded message (success or error), an ErrorMsg, a
\* resize or a spinner tick, and every step that dispatches a fetch is the
\* Init step or the handling of a key that returned one; a failed fetch is
\* not retried.
C21_FetchOnlyByInitOrKey ==
    /\ [](\A msg \in OtherMsgs : FetchCmds(Update(app, msg).cmd) = {})
    /\ [][nextId' # nextId =>
              \/ ~started /\ started'
              \/ \E k \in AllKeys :
                     /\ app' = OnKey(app, k).a
                     /\ FetchCmds(OnKey(app, k).cmd) # {}
                     /\ nextId' = nextId + 1]_vars

\* the only fetch dispatched failed; nothing runs and nothing was dispatched
\* after it
C21_Witness ==
    /\ started /\ ~quit
    /\ nextId = 1 /\ fetchLog[1].delivered = 1 /\ running = {}
    /\ app.views[app.activeView].err # 0
    /\ ~app.views[app.activeView].loading

\* the label fetchCurrentView gives the spinner for view v
LoadingLabel(v) == "Loading " \o ViewString(v) \o "..."

\* C22: every fetch dispatch (Init, view switch, refresh `r`, Forms tab
\* change) starts the shared spinner and sets its label to
\* "Loading {ViewName}..." for the fetched view, in the event that dispatches
\* the fetch.
C22_SpinnerOnEveryDispatch ==
    /\ LET r == fetchCurrentView(NewApp)
       IN  r.a.spinner = [spinning |-> TRUE, label |-> LoadingLabel(r.cmd[1].view)]
    /\ (started /\ ~quit) =>
           \A k \in AllKeys :
               LET r == OnKey(app, k)
               IN  \A i \in FetchCmds(r.cmd) :
                       r.a.spinner = [spinning |-> TRUE,
                                      label |-> LoadingLabel(r.cmd[i].view)]

----------------------------------------------------------------------------
(* Claims about FetchAll's page requests (SpecPages, FairPages) *)

\* the page size as the claim words it
ClaimedPageSize(lim) == IF lim = 0 \/ lim >= DefaultPerPage THEN DefaultPerPage ELSE lim

\* C23 as stated: the page numbers are 1, 2, 3, ... and every call has the
\* page size 25 when limit is 0 or limit >= 25, otherwise the limit itself.
C23_Original ==
    \A i \in 1..Len(requests) :
        requests[i] = [arg |-> i, perPage |-> ClaimedPageSize(limit)]

\* C23: FetchAll calls the page function with the page numbers 1, 2, 3, ...
\* in order, none skipped or repeated, and with one page size on every call:
\* the limit when 0 < limit < 25, otherwise (limit 0, negative, or >= 25) 25.
C23_ConsecutivePagesFixedSize ==
    /\ \A i \in 1..Len(requests) :
           requests[i] = [arg |-> i,
                          perPage |-> IF 0 < limit /\ limit < DefaultPerPage
                                      THEN limit ELSE DefaultPerPage]
    /\ pc = "loop" => position = Len(requests) + 1

\* two pages were requested under a negative limit
C23_Witness ==
    /\ fetcher = "FetchAll" /\ limit < 0
    /\ Len(requests) >= 2
    /\ requests[2].arg = 2

\* the page sequence reports no next page on its last page
Finite == pages[Len(pages)].next = 0

----------------------------------------------------------------------------
(* Claims about geometry, focus flags, loading flags and the status bar *)

\* C25: SetSize on a view propagates the geometry to its table and to its
\* detail panel: once a resize event has been processed, the detail panel of
\* a view that shows it has the view's content size (for Forms the height
\* less the rows of the tab strip), also when the resize came while the
\* panel was showing.
C25_DetailFollowsResize ==
    app.initialized =>
        \A v \in ViewTypes :
            LET view == app.views[v]
            IN  /\ view.table.width = view.width
                /\ view.table.height = view.height - TabRows(v)
                /\ view.showingDetail =>
                       /\ view.detail.width = view.width
                       /\ view.detail.height = view.height - TabRows(v)

\* the focus flags of the model a agree with its focus area and active view
FocusConsistent(a) ==
    /\ a.sidebar.focused <=> (a.focus = "FocusSidebar")
    /\ a.views[a.activeView].focused <=> (a.focus = "FocusContent")
    /\ \A v \in ViewTypes \ {a.activeView} : ~a.views[v].focused
    /\ a.sidebar.active = a.activeView

\* C26: in every reachable state the sidebar is focused exactly when the
\* focus area is Sidebar, the active view is focused exactly when it is
\* Content, no other view is focused, and the sidebar's selected entry is the
\* active view; every key and every other message keeps it so.
C26_FocusFlagsConsistent ==
    /\ FocusConsistent(app)
    /\ \A k \in AllKeys : FocusConsistent(OnKey(app, k).a)
    /\ \A msg \in OtherMsgs : FocusConsistent(Update(app, msg).a)

\* the focus is back in the content of the Forms view after a stay in the
\* sidebar, with every fetch delivered
C26_Witness ==
    /\ app.focus = "FocusContent" /\ app.activeView = ViewForms
    /\ app.views[ViewForms].focused /\ ~app.sidebar.focused
    /\ app.views[ViewSubscribers].items # <<>>
    /\ nextId = 3 /\ running = {}

\* C27: whenever a view's loading flag is false its table's loading flag is
\* false too: the Loaded message that clears the view's flag also takes the
\* table out of the loading state a refresh put it into, whether the message
\* carries items or an error.
C27_TableLoadingFollowsView ==
    \A v \in ViewTypes :
        ~app.views[v].loading => ~app.views[v].table.loading

\* the status bar and the spinner of the model a show the active view's state
StatusAgrees(a) ==
    LET view == a.views[a.activeView]
    IN  /\ a.statusbar.loading = view.loading
        /\ a.spinner.spinning = view.loading
        /\ ~view.loading => a.statusbar.left.count = Len(view.items)

\* C28: after every processed event the status bar's loading indicator and
\* the spinner's running state equal the active view's loading flag, and when
\* the view is not loading the displayed count is its item count: no key and
\* no other message takes a running dashboard out of that agreement.
C28_StatusBarAgrees ==
    (started /\ ~quit /\ StatusAgrees(app)) =>
        /\ \A k \in AllKeys : StatusAgrees(OnKey(app, k).a)
        /\ \A msg \in OtherMsgs : StatusAgrees(Update(app, msg).a)

----------------------------------------------------------------------------
(* Claims about the Forms tab and the detail panel under fetch completions *)

\* C29: in the Forms view, whenever no Forms fetch is outstanding and the
\* last applied Forms Loaded message was a success, the stored forms are the
\* ones fetched for the active type tab.
C29_FormsMatchActiveTab ==
    LET forms == app.views[ViewForms]
    IN  ((\A f \in running : f.view # ViewForms) /\ forms.err = 0) =>
            \A i \in 1..Len(forms.items) :
                forms.items[i].type = APIValue(forms.activeTab)

\* the Loaded messages view v can receive
LoadedMsgsOf(v) ==
    UNION { FetchMsgsUpTo([view |-> v, tab |-> t], MaxListed) :
              t \in {FormTypePopup, FormTypeEmbedded, FormTypePromotion} }

\* C30: while a view's detail panel is showing, a Loaded message for that
\* view, success or error, leaves showingDetail true and the panel's title
\* and rows as they are, also when it replaces the item list and the table
\* rows and the shown item is no longer in the list.
C30_DetailIsSnapshot ==
    /\ [](\A v \in ViewTypes : app.views[v].showingDetail =>
              \A msg \in LoadedMsgsOf(v) :
                  LET after == Update(app, msg).a.views[v]
                  IN  /\ after.showingDetail
                      /\ after.detail = app.views[v].detail)
    /\ [][\A f \in running \ running' :
              app.views[f.view].showingDetail =>
                  /\ app'.views[f.view].showingDetail
                  /\ app'.views[f.view].detail.title = app.views[f.view].detail.title
                  /\ app'.views[f.view].detail.rows = app.views[f.view].detail.rows]_vars

\* the panel shows the second item of a list that a reload has emptied
C30_Witness ==
    \E v \in ViewTypes :
        /\ app.views[v].showingDetail
        /\ app.views[v].detail.title.idx = 2
        /\ app.views[v].items = <<>>
        /\ ~app.views[v].loading /\ app.views[v].err = 0
        /\ running = {}

====
